---- MODULE Spec2Model ----
(***************************************************************************)
(* A model of AdvancedGraphView (viz/visualization.ts): the cytoscape      *)
(* graph store `viz`, the handlers registered in onOpen, and the async     *)
(* operations (onOpen, expand, file-open, mouseover) with one step per     *)
(* stretch of code between two awaits.                                     *)
(***************************************************************************)
EXTENDS Naturals, FiniteSets, Sequences, TLC

(***************************************************************************)
(* Bounds of the model.                                                    *)
(***************************************************************************)
\* number of registered data stores (this.datastores)
NumStores == 2
\* number of expand / file-open / tap calls that may be in flight together
MaxInFlight == 1
\* cap on the batch depth of the store (startBatch without endBatch)
MaxBatch == 1
\* cap on the cachedRead calls of mouseover in flight for one element
MaxReads == 2
\* cap on the pending preview timers of one element that hoverTimeout no
\* longer refers to
MaxTimers == 1
\* longest local id and store id
MaxLen == 2
\* the calls in flight where file-open events overlap
MaxOverlap == 2
\* cap on the expand calls whose steps are recorded
MaxExpands == 2

(***************************************************************************)
(* The universe of identities the data stores know about.  Node "A" stands *)
(* for the identity core:A, and so on; every edge identity has fixed ends. *)
(***************************************************************************)
NodeIds == {"A", "B", "C"}
EdgeIds == {"AB", "AC", "CC"}
ElemIds == NodeIds \cup EdgeIds

EdgeEnds ==
  [e \in EdgeIds |->
     CASE e = "AB" -> [source |-> "A", target |-> "B"]
       [] e = "AC" -> [source |-> "A", target |-> "C"]
       [] e = "CC" -> [source |-> "C", target |-> "C"]]

Src(e) == EdgeEnds[e].source
Tgt(e) == EdgeEnds[e].target

CLASS_PINNED == "pinned"
CLASS_EXPANDED == "expanded"
ActiveClasses == {"connected-active-file", "active-file", "inactive-file"}
HoverClasses == {"hover", "unhover", "connected-hover"}

\* Every identity carries the id of the store that produced it (VizId.toId,
\* lines 71-77): store 1 is the store 'core'.
StoreOf ==
  [x \in ElemIds |-> IF x \in {"A", "B", "AB"} THEN 1 ELSE 2]
IsCore(x) == StoreOf[x] = 1

\* The shapes of record a data store hands out for an identity: the classes
\* and the data of the record (the data of shape v2 has a 'context' field).
Variants == {"v1", "v2"}
RecClasses(v) == IF v = "v1" THEN {"note"} ELSE {"visited"}
RecData(v) == IF v = "v1" THEN "d1" ELSE "d2"
NoData == "none"
HasContext(d) == d = "d2"

\* The records the data stores hold, as pairs of identity and shape: two
\* documents and the link between them, B with two shapes of record
SmallVault == {<<"A", "v1">>, <<"B", "v1">>, <<"B", "v2">>, <<"AB", "v1">>}
\* two documents without a link
NodeVault == {<<"A", "v1">>, <<"B", "v1">>}
\* the document Home (A) with its links to two documents
HomeVault == {<<"A", "v1">>, <<"B", "v1">>, <<"C", "v1">>,
              <<"AB", "v1">>, <<"AC", "v1">>}
\* two documents and a link that carries a context
HoverVault == {<<"A", "v1">>, <<"B", "v1">>, <<"AB", "v2">>}

(***************************************************************************)
(* The graph store (cytoscape Core) as a value.                            *)
(***************************************************************************)
EmptyViz ==
  [nodes    |-> {},
   edges    |-> {},
   classes  |-> [x \in ElemIds |-> {}],
   data     |-> [x \in ElemIds |-> NoData],
   degree   |-> [n \in NodeIds |-> 0],
   selected |-> {},
   locked   |-> {},
   count    |-> [x \in ElemIds |-> 0]]

Elements(g) == g.nodes \cup g.edges

connectedEdges(g, N) ==
  {e \in g.edges : Src(e) \in N \/ Tgt(e) \in N}

connectedNodes(E) == {Src(e) : e \in E} \cup {Tgt(e) : e \in E}

\* eles.neighborhood(): for every node of N and every edge connected to it,
\* the edge and the node at its other end (the node itself for a loop).
neighborhood(g, N) ==
  LET M == N \cap g.nodes
  IN  connectedEdges(g, M)
      \cup {m \in g.nodes :
              \E n \in M, e \in g.edges :
                 \/ Src(e) = n /\ Tgt(e) = m
                 \/ Src(e) # n /\ Tgt(e) = n /\ Src(e) = m}

closedNeighborhood(g, N) == neighborhood(g, N) \cup (N \cap Elements(g))

\* node.degree(false): the incident edges, loops not counted
DegreeOf(g, n) ==
  Cardinality({e \in g.edges : Src(e) # Tgt(e) /\ (Src(e) = n \/ Tgt(e) = n)})

getExpanded(g) == {n \in g.nodes : CLASS_EXPANDED \in g.classes[n]}
getPinned(g) == {n \in g.nodes : CLASS_PINNED \in g.classes[n]}

addClass(g, X, c) ==
  [g EXCEPT !.classes = [x \in ElemIds |->
      IF x \in X \cap Elements(g) THEN g.classes[x] \cup {c} ELSE g.classes[x]]]

removeClass(g, X, C) ==
  [g EXCEPT !.classes = [x \in ElemIds |->
      IF x \in X \cap Elements(g) THEN g.classes[x] \ C ELSE g.classes[x]]]

(***************************************************************************)
(* Element lists.  `elems` is the concatenation of the stores' responses,  *)
(* kept as the sequence of the responses.                                  *)
(***************************************************************************)
Ids(elems) == UNION {DOMAIN elems[i] : i \in 1..Len(elems)}

\* the first record of elems for identity x
FirstRec(elems, x) ==
  LET i == CHOOSE i \in 1..Len(elems) :
             /\ x \in DOMAIN elems[i]
             /\ \A j \in 1..(i-1) : x \notin DOMAIN elems[j]
  IN  elems[i][x]

\* the last record of elems for identity x
LastRec(elems, x) ==
  LET i == CHOOSE i \in 1..Len(elems) :
             /\ x \in DOMAIN elems[i]
             /\ \A j \in (i+1)..Len(elems) : x \notin DOMAIN elems[j]
  IN  elems[i][x]

\* cy.add(elems): an element is created from the first record of an identity
\* the store does not hold; a record of an identity it holds, and an edge
\* with an end that is not in the store, are skipped.
\* a variant of the elements cy.add creates: one for every record, also when
\* the store holds its identity
createdAgain(g, elems, new) == (Ids(elems) \cap Elements(g)) \cup new

\* the elements cy.add creates: it refuses a record whose identity the store
\* holds
created(g, elems, new) == new

vizAdd(g, elems) ==
  LET newNodes == (Ids(elems) \cap NodeIds) \ g.nodes
      allNodes == g.nodes \cup newNodes
      newEdges == {e \in (Ids(elems) \cap EdgeIds) \ g.edges :
                     Src(e) \in allNodes /\ Tgt(e) \in allNodes}
      new      == newNodes \cup newEdges
  IN  [g EXCEPT
         !.count   = [x \in ElemIds |->
                        IF x \in created(g, elems, new) THEN @[x] + 1 ELSE @[x]],
         !.nodes   = allNodes,
         !.edges   = g.edges \cup newEdges,
         !.classes = [x \in ElemIds |->
                        IF x \in new THEN RecClasses(FirstRec(elems, x))
                        ELSE g.classes[x]],
         !.data    = [x \in ElemIds |->
                        IF x \in new THEN RecData(FirstRec(elems, x))
                        ELSE g.data[x]]]

\* a variant of onGraphChanged that adds the count to the degree on record
onGraphChangedAdd(g) ==
  [g EXCEPT !.degree = [n \in NodeIds |->
      IF n \in g.nodes THEN g.degree[n] + DegreeOf(g, n) ELSE 0]]

\* onGraphChanged: every node's degree is recomputed.
onGraphChanged(g) ==
  [g EXCEPT !.degree = [n \in NodeIds |->
      IF n \in g.nodes THEN DegreeOf(g, n) ELSE 0]]

\* a variant of extraClasses that carries the expanded class only
extraClassesExpanded(g, x) == g.classes[x] \cap {CLASS_EXPANDED}

\* mergeToGraph, lines 705-712: the protected classes of an element
extraClasses(g, x) == g.classes[x] \cap {CLASS_EXPANDED, CLASS_PINNED}

\* a variant of mergeExisting that adds the classes of the record to those
\* the element has
mergeExistingAdd(g, resp) ==
  LET ex == DOMAIN resp \cap Elements(g)
  IN  [g EXCEPT
         !.classes = [x \in ElemIds |->
                        IF x \in ex
                        THEN RecClasses(resp[x]) \cup g.classes[x]
                        ELSE g.classes[x]],
         !.data    = [x \in ElemIds |->
                        IF x \in ex THEN RecData(resp[x]) ELSE g.data[x]]]

\* mergeToGraph, lines 705-722, for the records of one response whose
\* identity the store holds (the store holds the same identities throughout
\* the loop: additions are staged).
mergeExisting(g, resp) ==
  LET ex == DOMAIN resp \cap Elements(g)
  IN  [g EXCEPT
         !.classes = [x \in ElemIds |->
                        IF x \in ex
                        THEN RecClasses(resp[x]) \cup extraClasses(g, x)
                        ELSE g.classes[x]],
         !.data    = [x \in ElemIds |->
                        IF x \in ex THEN RecData(resp[x]) ELSE g.data[x]]]

RECURSIVE mergeLoop(_, _)
mergeLoop(g, elems) ==
  IF elems = << >> THEN g
  ELSE mergeLoop(mergeExisting(g, Head(elems)), Tail(elems))

\* the records staged for addition: those whose identity the store lacks
addElements(g, elems) ==
  [i \in 1..Len(elems) |->
     [x \in DOMAIN elems[i] \ Elements(g) |-> elems[i][x]]]

\* a variant of mergeToGraph that puts a fresh element, neither selected nor
\* locked, in the place of every element it updates
mergeToGraphFresh(g, elems) ==
  LET m == mergeLoop(g, elems)
  IN  onGraphChanged(vizAdd([m EXCEPT !.selected = @ \ Ids(elems),
                                      !.locked = @ \ Ids(elems)],
                            addElements(g, elems)))

mergeToGraph(g, elems) ==
  onGraphChanged(vizAdd(mergeLoop(g, elems), addElements(g, elems)))

\* the collection mergeToGraph returns: the merged and the added elements
mergedCollection(g, elems) == Ids(elems) \cap Elements(mergeToGraph(g, elems))

\* a variant of updateActiveFile that leaves the classes of earlier calls
updateActiveFileKeep(g, N) ==
  LET g1 == addClass(g, Elements(g) \ closedNeighborhood(g, N), "inactive-file")
      g2 == addClass(g1, N, "active-file")
      ce == connectedEdges(g, N \cap g.nodes)
      g3 == addClass(g2, ce, "connected-active-file")
  IN  addClass(g3, connectedNodes(ce), "connected-active-file")

updateActiveFile(g, N) ==
  LET g0 == removeClass(g, Elements(g), ActiveClasses)
      g1 == addClass(g0, Elements(g) \ closedNeighborhood(g, N), "inactive-file")
      g2 == addClass(g1, N, "active-file")
      ce == connectedEdges(g, N \cap g.nodes)
      g3 == addClass(g2, ce, "connected-active-file")
  IN  addClass(g3, connectedNodes(ce), "connected-active-file")

\* eles.remove(): the nodes and the edges connected to them leave the store
vizRemove(g, N) ==
  LET rn == N \cap g.nodes
      re == connectedEdges(g, rn)
      gone == rn \cup re
  IN  [g EXCEPT
         !.nodes    = g.nodes \ rn,
         !.edges    = g.edges \ re,
         !.classes  = [x \in ElemIds |-> IF x \in gone THEN {} ELSE g.classes[x]],
         !.data     = [x \in ElemIds |-> IF x \in gone THEN NoData ELSE g.data[x]],
         !.degree   = [n \in NodeIds |-> IF n \in rn THEN 0 ELSE g.degree[n]],
         !.selected = g.selected \ gone,
         !.locked   = g.locked \ gone,
         !.count    = [x \in ElemIds |-> IF x \in gone THEN 0 ELSE g.count[x]]]

\* a variant of removeNodes that leaves the expanded classes alone
removeNodesOnly(g, N) == vizRemove(g, N)

\* a variant of removeNodes that takes expanded from every node
removeNodesAllExpanded(g, N) ==
  vizRemove(removeClass(g, getExpanded(g), {CLASS_EXPANDED}), N)

removeNodes(g, N) ==
  vizRemove(removeClass(g, getExpanded(g) \cap neighborhood(g, N), {CLASS_EXPANDED}), N)

(***************************************************************************)
(* State.                                                                  *)
(***************************************************************************)
VARIABLES
  vault,         \* the records the data stores hold
  ident,         \* a VizId, the string made of it and the VizId made of that
  viz,           \* this.viz: the graph store
  open,          \* the position of onOpen
  procs,         \* the expand, file-open and tap calls in flight
  activeLayout,  \* this.activeLayout: "none" (undefined), "running", "stopped"
  runs,          \* the number of layout runs that are running
  unlockOnStop,  \* the nodes with a one-shot layoutstop listener of dragfree
                 \* on the layout this.activeLayout refers to
  grabbed,       \* the node the user holds, or "none"
  batch,         \* the depth of open startBatch calls
  tapClear,      \* a one-shot tap listener of updateActiveFile is registered
  pointer,       \* the element under the pointer, or "none"
  hoverTimeout,  \* this.hoverTimeout: per element "absent" (no key),
                 \* "undefined", or the handle of a timer "pending" or "fired"
  timers,        \* per element, the pending timers whose handle is lost
  reads,         \* per element, the cachedRead calls of mouseover in flight
  preview,       \* per element, the popover: "none", "render", "open", "closing"
  steps,         \* history: the steps of the expand calls, where recorded
  last,          \* history: the operation that led to this state
  fetched        \* history: the nodes whose neighbourhood was fetched and merged

vars == <<vault, ident, viz, open, procs, activeLayout, runs, unlockOnStop,
          grabbed, batch, tapClear, steps,
          pointer, hoverTimeout, timers, reads, preview, last, fetched>>

hoverVars == <<pointer, hoverTimeout, timers, reads, preview>>

Stores == 1..NumStores

\* the identities the data stores hold and the shapes they hold of them
VaultIds == {r[1] : r \in vault}
VariantsOf(x) == {r[2] : r \in {q \in vault : q[1] = x}}

\* The responses of data store i about the identities ids: records keyed by
\* identity, of identities of that store.
Responses(i, ids) ==
  UNION {{f \in [S -> Variants] : \A x \in S : f[x] \in VariantsOf(x)} :
           S \in SUBSET {x \in ids : StoreOf[x] = i}}

Slots == DOMAIN procs

\* the node the view is opened on (this.initialNode)
initialNode == "A"

\* a call in flight: the code position (kind, phase, store index i) and the
\* locals that live across its awaits
Call(kind, phase, i, S, live, acc, callNodes, newNodes) ==
  [kind |-> kind, phase |-> phase, i |-> i, S |-> S, live |-> live,
   acc |-> acc, callNodes |-> callNodes, newNodes |-> newNodes]

Idle == Call("idle", "-", 0, {}, {}, << >>, {}, {})

Other == [op |-> "other", S |-> {}, E |-> {}]
Op(name, S, E) == [op |-> name, S |-> S, E |-> E]

\* no VizId under conversion
NoIdent == [phase |-> "none"]

\* the steps of expand are not recorded
NoSteps == [on |-> FALSE]

\* the steps of expand are recorded, per call in flight: none so far
NewSteps(k) ==
  [on |-> TRUE, trace |-> [s \in 1..k |-> << >>],
   started |-> 0, returned |-> 0, rejected |-> 0, notified |-> 0]

Count(seq, x) == Cardinality({i \in DOMAIN seq : seq[i] = x})

\* a call of expand starts in slot s
stepsStart(st, s) ==
  IF st.on THEN [st EXCEPT !.trace[s] = << >>, !.started = @ + 1] ELSE st

\* the call in slot s takes the steps new
stepsAdd(st, s, new) ==
  IF st.on
  THEN [st EXCEPT !.trace[s] = @ \o new,
                  !.returned = @ + Count(new, "return"),
                  !.rejected = @ + Count(new, "reject"),
                  !.notified = @ + Count(new, "trigger(expand)")]
  ELSE st

\* line 524
expandMerge == <<"mergeToGraph(neighbourhood)">>

\* a variant of the end of expand that notifies before it merges the edges
expandTailNotifyFirst ==
  <<"trigger(expand)", "mergeToGraph(edges)", "restartLayout",
    "addClass(expanded)", "updateActiveFile(toExpand, false)", "return">>

\* lines 530-535
expandTail ==
  <<"mergeToGraph(edges)", "restartLayout", "addClass(expanded)",
    "updateActiveFile(toExpand, false)", "trigger(expand)", "return">>

InitFields(k) ==
  /\ viz = EmptyViz
  /\ open = Call("onOpen", "nbh", 1, {initialNode}, {}, << >>, {}, {})
  /\ procs = [s \in 1..k |-> Idle]
  /\ activeLayout = "none"
  /\ runs = 0
  /\ unlockOnStop = {}
  /\ grabbed = "none"
  /\ batch = 0
  /\ tapClear = FALSE
  /\ pointer = "none"
  /\ hoverTimeout = [x \in ElemIds |-> "absent"]
  /\ timers = [x \in ElemIds |-> 0]
  /\ reads = [x \in ElemIds |-> 0]
  /\ preview = [x \in ElemIds |-> "none"]
  /\ last = Other
  /\ fetched = {}

InitStoreOf(k) == InitFields(k) /\ steps = NoSteps

InitStore == InitStoreOf(MaxInFlight)

InitView ==
  /\ ident = NoIdent
  /\ InitStore

Init ==
  /\ vault = SmallVault
  /\ InitView

\* onOpen has registered the handlers
Ready == open.phase = "done"

\* the edges a store may return from connectNodes(allNodes, newNodes)
ConnectCandidates(p) ==
  {e \in EdgeIds \cap VaultIds :
     /\ Src(e) \in p.callNodes /\ Tgt(e) \in p.callNodes
     /\ (Src(e) \in p.newNodes \/ Tgt(e) \in p.newNodes)}

NodeResponses(i) == Responses(i, NodeIds \cap VaultIds)
EdgeResponses(p) == Responses(p.i, ConnectCandidates(p))

(***************************************************************************)
(* onOpen, lines 141-451.                                                  *)
(***************************************************************************)
\* line 157: a store's getNeighbourhood resolves; after the last one the
\* store is created from the nodes (lines 159-164), the initial node is
\* tagged (line 187) and buildEdges makes its first call (line 190)
OnOpenNeighbourhood ==
  /\ open.phase = "nbh"
  /\ \E resp \in NodeResponses(open.i) :
       LET elems == Append(open.acc, resp) IN
       IF open.i < NumStores
       THEN /\ open' = [open EXCEPT !.i = @ + 1, !.acc = elems]
            /\ viz' = viz
       ELSE /\ viz' = addClass(vizAdd(EmptyViz, elems), {initialNode}, CLASS_EXPANDED)
            /\ open' = [open EXCEPT !.phase = "con", !.i = 1, !.acc = << >>,
                                    !.live = {initialNode} \cap viz'.nodes,
                                    !.callNodes = viz'.nodes,
                                    !.newNodes = viz'.nodes]
  /\ last' = Other
  /\ UNCHANGED <<vault, ident, steps, grabbed, runs, unlockOnStop, procs, activeLayout, batch, tapClear, hoverVars, fetched>>

\* line 190: a store's connectNodes resolves; after the last one the edges
\* are added and the degrees computed (lines 192-193)
OnOpenConnect ==
  /\ open.phase = "con"
  /\ \E resp \in EdgeResponses(open) :
       LET elems == Append(open.acc, resp) IN
       IF open.i < NumStores
       THEN /\ open' = [open EXCEPT !.i = @ + 1, !.acc = elems,
                                    !.callNodes = viz.nodes]
            /\ last' = Other
            /\ UNCHANGED <<viz, fetched>>
       ELSE /\ viz' = onGraphChanged(vizAdd(viz, elems))
            /\ open' = [open EXCEPT !.phase = "style", !.i = 0, !.acc = << >>,
                                    !.callNodes = {}, !.newNodes = {}]
            /\ fetched' = fetched \cup open.live
            /\ last' = Op("open", viz.nodes, Ids(elems))
  /\ UNCHANGED <<vault, ident, steps, grabbed, runs, unlockOnStop, procs, activeLayout, batch, tapClear, hoverVars>>

\* line 200: createStylesheet resolves; the layout starts (line 203) and the
\* handlers are registered (lines 209-437)
OnOpenStyle ==
  /\ open.phase = "style"
  /\ open' = [open EXCEPT !.phase = "done"]
  /\ activeLayout' = "running"
  /\ runs' = runs + 1
  /\ last' = Other
  /\ UNCHANGED <<vault, ident, steps, grabbed, unlockOnStop, viz, procs, batch, tapClear, hoverVars, fetched>>

\* an awaited call of onOpen rejects: onOpen ends there
OnOpenReject ==
  /\ open.phase \in {"nbh", "con", "style"}
  /\ open' = [open EXCEPT !.phase = IF open.phase = "nbh" THEN "failed0" ELSE "failed",
                          !.i = 0, !.acc = << >>, !.callNodes = {}, !.newNodes = {}]
  /\ last' = Other
  /\ UNCHANGED <<vault, ident, steps, grabbed, runs, unlockOnStop, viz, procs, activeLayout, batch, tapClear, hoverVars, fetched>>

(***************************************************************************)
(* The synchronous operations: toolbar, context menu and keyboard.         *)
(***************************************************************************)
selectedNodes == viz.selected \cap viz.nodes

FreeSlots == {s \in Slots : procs[s].kind = "idle"}
\* a new call takes the first free slot
NewSlot == CHOOSE s \in FreeSlots : \A t \in FreeSlots : s <= t

\* the element references a call holds go stale when the nodes are removed
DropLive(p, gone) == [p EXCEPT !.live = @ \ gone]

\* restartLayout, lines 688-693
restartLayout == "running"

\* lines 299-303: the one-shot layoutstop listeners of dragfree run when the
\* layout they were registered on stops; each unlocks its node unless the
\* node is pinned at that moment
\* a variant of the listeners that unlocks the node whether pinned or not
layoutstopAll(g, W) == [g EXCEPT !.locked = @ \ W]

layoutstop(g, W) ==
  [g EXCEPT !.locked = @ \ {n \in W \cap g.nodes : CLASS_PINNED \notin g.classes[n]}]

\* this.activeLayout.stop(): a running layout stops and emits layoutstop; one
\* that has stopped already emits nothing
stop(g, l, W) == IF l = "running" THEN layoutstop(g, W) ELSE g

stopRuns(l, r) == IF l = "running" THEN r - 1 ELSE r

\* a variant of restartLayout that starts the new layout and leaves the old
\* one running
restartRunsKeep(l, r) == r + 1

\* lines 688-693: the runs after restartLayout
restartRuns(l, r) == stopRuns(l, r) + 1

\* lines 688-693 on the layout variables: the old layout is stopped, its
\* listeners are spent, and this.activeLayout is a new layout that runs
RestartLayout ==
  /\ activeLayout' = restartLayout
  /\ runs' = restartRuns(activeLayout, runs)
  /\ unlockOnStop' = {}

\* selectAll, lines 589-592
selectAll(g) == [g EXCEPT !.selected = @ \cup g.nodes]

\* a variant of invertSelection that inverts the selection of the nodes
invertSelectionNodes(g) == [g EXCEPT !.selected = g.nodes \ g.selected]

\* invertSelection, lines 594-600
invertSelection(g) == [g EXCEPT !.selected = Elements(g) \ g.selected]

\* selectNeighbourhood, lines 602-609
\* a variant of selectNeighbourhood that does not unselect first
selectNeighbourhoodKeep(g) ==
  [g EXCEPT !.selected = @ \cup neighborhood(g, g.selected \cap g.nodes)]

selectNeighbourhood(g) ==
  LET sn == g.selected \cap g.nodes
  IN  [g EXCEPT !.selected = (@ \ sn) \cup neighborhood(g, sn)]

\* pinSelection, lines 632-638
pinSelection(g) ==
  LET sn == g.selected \cap g.nodes
  IN  addClass([g EXCEPT !.locked = @ \cup sn], sn, CLASS_PINNED)

\* unpinSelection, lines 624-630
\* a variant of unpinSelection that removes the class and leaves the lock
unpinSelectionClass(g) ==
  removeClass(g, g.selected \cap g.nodes, {CLASS_PINNED})

unpinSelection(g) ==
  LET sn == g.selected \cap g.nodes
  IN  removeClass([g EXCEPT !.locked = @ \ sn], sn, {CLASS_PINNED})

SelectAll ==
  /\ Ready
  /\ viz' = selectAll(viz)
  /\ last' = Other
  /\ UNCHANGED <<vault, ident, steps, grabbed, runs, unlockOnStop, open, procs, activeLayout, batch, tapClear, hoverVars, fetched>>

InvertSelection ==
  /\ Ready
  /\ viz' = invertSelection(viz)
  /\ last' = Other
  /\ UNCHANGED <<vault, ident, steps, grabbed, runs, unlockOnStop, open, procs, activeLayout, batch, tapClear, hoverVars, fetched>>

SelectNeighbourhood ==
  /\ Ready
  /\ viz' = selectNeighbourhood(viz)
  /\ last' = Other
  /\ UNCHANGED <<vault, ident, steps, grabbed, runs, unlockOnStop, open, procs, activeLayout, batch, tapClear, hoverVars, fetched>>

PinSelection ==
  /\ Ready
  /\ viz' = stop(pinSelection(viz), activeLayout, unlockOnStop)
  /\ RestartLayout
  /\ last' = Other
  /\ UNCHANGED <<vault, ident, steps, grabbed, open, procs, batch, tapClear, hoverVars, fetched>>

UnpinSelection ==
  /\ Ready
  /\ viz' = stop(unpinSelection(viz), activeLayout, unlockOnStop)
  /\ RestartLayout
  /\ last' = Other
  /\ UNCHANGED <<vault, ident, steps, grabbed, open, procs, batch, tapClear, hoverVars, fetched>>

\* the neighbours of b other than b itself
OtherNeighbours(g, b) == (neighborhood(g, {b}) \cap NodeIds) \ {b}

\* removeSelection, lines 583-587, with removeNodes, lines 612-622
RemoveSelection ==
  /\ Ready
  /\ LET N == selectedNodes IN
     /\ viz' = stop(removeNodes(viz, N), activeLayout, unlockOnStop)
     /\ procs' = [s \in Slots |-> DropLive(procs[s], N)]
     /\ fetched' = fetched \ N
     /\ last' = Op("remove", N,
                   {b \in getExpanded(viz) \ N :
                      /\ OtherNeighbours(viz, b) # {}
                      /\ OtherNeighbours(viz, b) \subseteq N})
  /\ RestartLayout
  /\ UNCHANGED <<vault, ident, steps, grabbed, open, batch, tapClear, hoverVars>>

\* the running layout comes to its end
LayoutStop ==
  /\ activeLayout = "running"
  /\ activeLayout' = "stopped"
  /\ runs' = stopRuns(activeLayout, runs)
  /\ viz' = layoutstop(viz, unlockOnStop)
  /\ unlockOnStop' = {}
  /\ last' = IF unlockOnStop = {} THEN Other ELSE Op("layoutstop", unlockOnStop, {})
  /\ UNCHANGED <<vault, ident, steps, grabbed, open, procs, batch, tapClear, hoverVars, fetched>>

(***************************************************************************)
(* Tap, lines 209-225, and the one-shot tap listener of updateActiveFile,  *)
(* lines 785-787.                                                          *)
(***************************************************************************)
clearActive(g) == removeClass(g, Elements(g), ActiveClasses)

\* a tap on node n: the node becomes the selection and the one-shot listener
\* clears the active-file classes; the node handler (lines 209-225) awaits
\* openFile for a node of the store 'core'
TapNode(n) ==
  /\ Ready
  /\ n \in viz.nodes
  /\ LET g == [viz EXCEPT !.selected = {n}] IN
     viz' = IF tapClear THEN clearActive(g) ELSE g
  /\ tapClear' = FALSE
  /\ IF IsCore(n)
     THEN /\ FreeSlots # {}
          /\ procs' = [procs EXCEPT ![NewSlot] =
                         Call("tap", "open", 0, {n}, {n}, << >>, {}, {})]
     ELSE UNCHANGED procs
  /\ last' = Other
  /\ UNCHANGED <<vault, ident, steps, grabbed, runs, unlockOnStop, open, activeLayout, batch, hoverVars, fetched>>

\* a tap on the background: the selection is dropped
TapBackground ==
  /\ Ready
  /\ LET g == [viz EXCEPT !.selected = {}] IN
     viz' = IF tapClear THEN clearActive(g) ELSE g
  /\ tapClear' = FALSE
  /\ last' = Other
  /\ UNCHANGED <<vault, ident, steps, grabbed, runs, unlockOnStop, open, procs, activeLayout, batch, hoverVars, fetched>>

\* cxttap on node n, lines 305-311: the node joins the selection
CxtTap(n) ==
  /\ Ready
  /\ n \in viz.nodes
  /\ viz' = [viz EXCEPT !.selected = @ \cup {n}]
  /\ last' = Other
  /\ UNCHANGED <<vault, ident, steps, grabbed, runs, unlockOnStop, open, procs, activeLayout, batch, tapClear, hoverVars, fetched>>

\* line 216 / 222: openFile resolves; line 224
TapResolve(s) ==
  /\ procs[s].kind = "tap"
  /\ viz' = updateActiveFile(viz, procs[s].live)
  /\ tapClear' = TRUE
  /\ procs' = [procs EXCEPT ![s] = Idle]
  /\ last' = Op("setActive", procs[s].live, {})
  /\ UNCHANGED <<vault, ident, steps, grabbed, runs, unlockOnStop, open, activeLayout, batch, hoverVars, fetched>>

(***************************************************************************)
(* expand, lines 520-536, with neighbourhood and buildEdges, lines 504-518.*)
(***************************************************************************)
StartExpand(S) ==
  /\ FreeSlots # {}
  /\ steps.on => steps.started < MaxExpands
  /\ procs' = [procs EXCEPT ![NewSlot] =
                 Call("expand", "nbh", 1, S, S, << >>, {}, {})]
  /\ steps' = stepsStart(steps, NewSlot)
  /\ last' = Other
  /\ UNCHANGED <<vault, ident, grabbed, runs, unlockOnStop, viz, open, activeLayout, batch, tapClear, hoverVars, fetched>>

\* line 230: dblclick on a node
DblClick(n) ==
  /\ Ready
  /\ n \in viz.nodes
  /\ StartExpand({n})

\* expandSelection, lines 579-581
ExpandSelection ==
  /\ Ready
  /\ StartExpand(selectedNodes)

\* line 523: a store's getNeighbourhood resolves; after the last one the
\* nodes are merged (line 524) and buildEdges makes its first call (line 529)
ExpandNeighbourhood(s) ==
  /\ procs[s].kind = "expand" /\ procs[s].phase = "nbh"
  /\ \E resp \in NodeResponses(procs[s].i) :
       LET p == procs[s]
           elems == Append(p.acc, resp) IN
       IF p.i < NumStores
       THEN /\ procs' = [procs EXCEPT ![s] = [p EXCEPT !.i = @ + 1, !.acc = elems]]
            /\ viz' = viz
            /\ last' = Other
            /\ steps' = steps
       ELSE /\ viz' = mergeToGraph(viz, elems)
            /\ steps' = stepsAdd(steps, s, expandMerge)
            /\ procs' = [procs EXCEPT ![s] =
                 [p EXCEPT !.phase = "con", !.i = 1, !.acc = << >>,
                           !.callNodes = viz'.nodes,
                           !.newNodes = Ids(elems)]]
            /\ last' = Op("mergeNodes", Ids(elems) \cap viz.nodes, Ids(elems) \ viz.nodes)
  /\ UNCHANGED <<vault, ident, grabbed, runs, unlockOnStop, open, activeLayout, batch, tapClear, hoverVars, fetched>>

\* line 529: a store's connectNodes resolves; after the last one lines
\* 530-535 run
ExpandConnect(s) ==
  /\ procs[s].kind = "expand" /\ procs[s].phase = "con"
  /\ \E resp \in EdgeResponses(procs[s]) :
       LET p == procs[s]
           elems == Append(p.acc, resp) IN
       IF p.i < NumStores
       THEN /\ procs' = [procs EXCEPT ![s] =
                 [p EXCEPT !.i = @ + 1, !.acc = elems, !.callNodes = viz.nodes]]
            /\ last' = Other
            /\ UNCHANGED <<viz, activeLayout, runs, unlockOnStop, tapClear, fetched, steps>>
       ELSE /\ viz' = stop(updateActiveFile(
                             addClass(mergeToGraph(viz, elems), p.live, CLASS_EXPANDED),
                             p.live),
                           activeLayout, unlockOnStop)
            /\ RestartLayout
            /\ tapClear' = TRUE
            /\ procs' = [procs EXCEPT ![s] = Idle]
            /\ fetched' = fetched \cup p.live
            /\ last' = Op("expand", p.S, Ids(elems))
            /\ steps' = stepsAdd(steps, s, expandTail)
  /\ UNCHANGED <<vault, ident, grabbed, open, batch, hoverVars>>

(***************************************************************************)
(* The grab and dragfree handlers, lines 286-304.  A locked node cannot be *)
(* grabbed.                                                                *)
(***************************************************************************)
\* lines 286-290: the user takes hold of a node
Grab(n) ==
  /\ Ready
  /\ grabbed = "none"
  /\ n \in viz.nodes \ viz.locked
  /\ viz' = stop(viz, activeLayout, unlockOnStop)
  /\ activeLayout' = "stopped"
  /\ runs' = stopRuns(activeLayout, runs)
  /\ unlockOnStop' = {}
  /\ grabbed' = n
  /\ last' = Other
  /\ UNCHANGED <<vault, ident, steps, open, procs, batch, tapClear, hoverVars, fetched>>

\* lines 291-304: the user lets go of the node.  The layout is stopped and
\* started again, the node is locked and a listener waits for the layout to
\* stop.  A node hidden while it was held raises no event.
DragFree(n) ==
  /\ grabbed = n
  /\ grabbed' = "none"
  /\ last' = Op("dragfree", {n} \cap viz.nodes, {})
  /\ IF n \in viz.nodes
     THEN LET g == stop(viz, activeLayout, unlockOnStop) IN
          /\ viz' = [g EXCEPT !.locked = @ \cup {n}]
          /\ activeLayout' = "running"
          /\ runs' = stopRuns(activeLayout, runs) + 1
          /\ unlockOnStop' = {n}
     ELSE UNCHANGED <<viz, activeLayout, runs, unlockOnStop>>
  /\ UNCHANGED <<vault, ident, steps, open, procs, batch, tapClear, hoverVars, fetched>>

(***************************************************************************)
(* The file-open handler, lines 389-414.                                   *)
(***************************************************************************)
FileOpensInFlight == Cardinality({s \in Slots : procs[s].kind = "fileopen"})

\* lines 390-394, and 410-412 when the node is in the store
FileOpen(n) ==
  /\ Ready
  /\ n \in VaultIds /\ IsCore(n)
  /\ IF n \in viz.nodes
     THEN /\ viz' = updateActiveFile(viz, {n})
          /\ tapClear' = TRUE
          /\ last' = Op("setActive", {n}, {})
          /\ UNCHANGED procs
     ELSE /\ FreeSlots # {}
          /\ batch + FileOpensInFlight < MaxBatch * Cardinality(Slots)
          /\ procs' = [procs EXCEPT ![NewSlot] =
                         Call("fileopen", "get", 1, {n}, {}, << >>, {}, {})]
          /\ last' = Other
          /\ UNCHANGED <<viz, tapClear>>
  /\ UNCHANGED <<vault, ident, steps, grabbed, runs, unlockOnStop, open, activeLayout, batch, hoverVars, fetched>>

\* line 397: dataStore.get resolves; lines 398-400 run up to the first
\* connectNodes call of buildEdges
FileOpenGet(s) ==
  /\ procs[s].kind = "fileopen" /\ procs[s].phase = "get"
  /\ \E v \in Variants :
       LET p == procs[s]
           n == CHOOSE n \in p.S : TRUE IN
       /\ v \in VariantsOf(n)
       /\ viz' = vizAdd(viz, << [x \in {n} |-> v] >>)
       /\ procs' = [procs EXCEPT ![s] =
            [p EXCEPT !.phase = "con", !.i = 1, !.callNodes = viz'.nodes,
                      !.newNodes = {n}]]
       /\ last' = Op("add", {}, {n} \ viz.nodes)
  /\ batch' = batch + 1
  /\ UNCHANGED <<vault, ident, steps, grabbed, runs, unlockOnStop, open, activeLayout, tapClear, hoverVars, fetched>>

\* line 400: a store's connectNodes resolves; after the last one lines
\* 401-412 run
FileOpenConnect(s) ==
  /\ procs[s].kind = "fileopen" /\ procs[s].phase = "con"
  /\ \E resp \in EdgeResponses(procs[s]) :
       LET p == procs[s]
           elems == Append(p.acc, resp) IN
       IF p.i < NumStores
       THEN /\ procs' = [procs EXCEPT ![s] =
                 [p EXCEPT !.i = @ + 1, !.acc = elems, !.callNodes = viz.nodes]]
            /\ last' = Other
            /\ UNCHANGED <<viz, activeLayout, runs, unlockOnStop, batch, tapClear>>
       ELSE /\ viz' = stop(updateActiveFile(onGraphChanged(vizAdd(viz, elems)), p.S),
                           activeLayout, unlockOnStop)
            /\ batch' = batch - 1
            /\ RestartLayout
            /\ tapClear' = TRUE
            /\ procs' = [procs EXCEPT ![s] = Idle]
            /\ last' = Op("fileopen", p.S, Ids(elems))
  /\ UNCHANGED <<vault, ident, steps, grabbed, open, hoverVars, fetched>>

\* the call a handler awaits rejects: the handler ends there.  S names the
\* elements the stores asked before had returned for this call.
CallReject(s) ==
  /\ procs[s].kind # "idle"
  /\ procs' = [procs EXCEPT ![s] = Idle]
  /\ last' = Op("reject", Ids(procs[s].acc), {})
  /\ steps' = IF procs[s].kind = "expand" THEN stepsAdd(steps, s, <<"reject">>) ELSE steps
  /\ UNCHANGED <<vault, ident, grabbed, runs, unlockOnStop, viz, open, activeLayout, batch, tapClear, hoverVars, fetched>>

(***************************************************************************)
(* Hover: mouseover, lines 233-271, mouseout, lines 272-285, and popover,   *)
(* lines 453-502.                                                          *)
(***************************************************************************)
\* lines 236-243 and 258-263: the hover classes for the element x with the
\* closed neighbourhood cn and the connected elements ce
hoverClasses(g, x, cn, ce) ==
  addClass(addClass(addClass(g, Elements(g) \ cn, "unhover"),
                    {x}, "hover"),
           ce, "connected-hover")

\* setTimeout(..., 500) assigned to this.hoverTimeout[x], lines 250 and 266:
\* a pending timer the entry referred to stays pending, its handle is lost
SetTimer(x) ==
  /\ hoverTimeout[x] = "pending" => timers[x] < MaxTimers
  /\ timers' = [timers EXCEPT ![x] = IF hoverTimeout[x] = "pending" THEN @ + 1 ELSE @]
  /\ hoverTimeout' = [hoverTimeout EXCEPT ![x] = "pending"]

\* lines 233-249: the pointer enters node n; the handler stops at the await
\* of cachedRead when n is a markdown document of the store 'core'
MouseOverNode(n) ==
  /\ Ready
  /\ pointer = "none"
  /\ n \in viz.nodes
  /\ pointer' = n
  /\ LET ce == connectedEdges(viz, {n})
         g == hoverClasses(viz, n, closedNeighborhood(viz, {n}),
                           ce \cup connectedNodes(ce))
     IN  viz' = [g EXCEPT !.locked = @ \ {n}]
  /\ IF IsCore(n) /\ n \in VaultIds
     THEN /\ reads[n] < MaxReads
          /\ reads' = [reads EXCEPT ![n] = @ + 1]
     ELSE UNCHANGED reads
  /\ last' = Other
  /\ UNCHANGED <<vault, ident, steps, grabbed, runs, unlockOnStop, open, procs, activeLayout, batch, tapClear,
                 hoverTimeout, timers, preview, fetched>>

\* lines 249-252: cachedRead resolves and the preview timer is set
ReadResolve(x) ==
  /\ reads[x] > 0
  /\ reads' = [reads EXCEPT ![x] = @ - 1]
  /\ SetTimer(x)
  /\ last' = Other
  /\ UNCHANGED <<vault, ident, steps, grabbed, runs, unlockOnStop, viz, open, procs, activeLayout, batch, tapClear,
                 pointer, preview, fetched>>

\* lines 256-271: the pointer enters edge e
MouseOverEdge(e) ==
  /\ Ready
  /\ pointer = "none"
  /\ e \in viz.edges
  /\ pointer' = e
  /\ viz' = hoverClasses(viz, e, connectedNodes({e}) \cup {e}, connectedNodes({e}))
  /\ IF HasContext(viz.data[e])
     THEN SetTimer(e)
     ELSE UNCHANGED <<hoverTimeout, timers>>
  /\ last' = Other
  /\ UNCHANGED <<vault, ident, steps, grabbed, runs, unlockOnStop, open, procs, activeLayout, batch, tapClear,
                 reads, preview, fetched>>

\* lines 272-285: the pointer leaves element x; the one-shot mouseout
\* listeners of the open popovers (lines 494-501) plan their removal
MouseOut(x) ==
  /\ Ready
  /\ pointer = x
  /\ x \in Elements(viz)
  /\ pointer' = "none"
  /\ hoverTimeout' = [hoverTimeout EXCEPT ![x] = IF @ = "absent" THEN @ ELSE "undefined"]
  /\ LET g == removeClass(viz, Elements(viz), HoverClasses)
     IN  viz' = [g EXCEPT !.locked = IF CLASS_PINNED \in viz.classes[x]
                                     THEN @ \cup {x} ELSE @]
  /\ preview' = [y \in ElemIds |-> IF preview[y] = "open" THEN "closing" ELSE preview[y]]
  /\ last' = Other
  /\ UNCHANGED <<vault, ident, steps, grabbed, runs, unlockOnStop, open, procs, activeLayout, batch, tapClear,
                 timers, reads, fetched>>

\* a preview timer of x fires and popover runs up to the await of
\* renderMarkdown (lines 454-469); one popover per element is followed
TimerFire(x) ==
  /\ preview[x] = "none"
  /\ \/ /\ hoverTimeout[x] = "pending"
        /\ hoverTimeout' = [hoverTimeout EXCEPT ![x] = "fired"]
        /\ UNCHANGED timers
     \/ /\ timers[x] > 0
        /\ timers' = [timers EXCEPT ![x] = @ - 1]
        /\ UNCHANGED hoverTimeout
  /\ preview' = [preview EXCEPT ![x] = "render"]
  /\ last' = Other
  /\ UNCHANGED <<vault, ident, steps, grabbed, runs, unlockOnStop, viz, open, procs, activeLayout, batch, tapClear,
                 pointer, reads, fetched>>

\* lines 470-501: renderMarkdown resolves and the popover is shown
PreviewRender(x) ==
  /\ preview[x] = "render"
  /\ preview' = [preview EXCEPT ![x] = "open"]
  /\ last' = Other
  /\ UNCHANGED <<vault, ident, steps, grabbed, runs, unlockOnStop, viz, open, procs, activeLayout, batch, tapClear,
                 pointer, hoverTimeout, timers, reads, fetched>>

\* lines 495-500: 300 ms after the mouseout the popover is taken down
PreviewClose(x) ==
  /\ preview[x] = "closing"
  /\ preview' = [preview EXCEPT ![x] = "none"]
  /\ last' = Other
  /\ UNCHANGED <<vault, ident, steps, grabbed, runs, unlockOnStop, viz, open, procs, activeLayout, batch, tapClear,
                 pointer, hoverTimeout, timers, reads, fetched>>

(***************************************************************************)
(* The view on the two linked documents: opening, selection by context     *)
(* menu, pin, hide and expand.                                             *)
(***************************************************************************)
Next ==
  \/ OnOpenNeighbourhood \/ OnOpenConnect \/ OnOpenStyle \/ OnOpenReject
  \/ PinSelection \/ RemoveSelection \/ ExpandSelection
  \/ \E n \in NodeIds : CxtTap(n) \/ DblClick(n)
  \/ \E s \in Slots :
       ExpandNeighbourhood(s) \/ ExpandConnect(s) \/ CallReject(s)

Spec == Init /\ [][Next]_vars

(***************************************************************************)
(* Every operation on the store but hover, on two documents without link.  *)
(***************************************************************************)
InitNodes ==
  /\ vault = NodeVault
  /\ InitView

NextNodes ==
  \/ OnOpenNeighbourhood \/ OnOpenConnect \/ OnOpenStyle \/ OnOpenReject
  \/ SelectAll \/ InvertSelection \/ SelectNeighbourhood
  \/ PinSelection \/ UnpinSelection \/ RemoveSelection
  \/ LayoutStop \/ TapBackground \/ ExpandSelection
  \/ \E n \in NodeIds : TapNode(n) \/ CxtTap(n) \/ DblClick(n) \/ FileOpen(n)
  \/ \E s \in Slots :
       \/ TapResolve(s) \/ ExpandNeighbourhood(s) \/ ExpandConnect(s)
       \/ FileOpenGet(s) \/ FileOpenConnect(s) \/ CallReject(s)

SpecNodes == InitNodes /\ [][NextNodes]_vars

(***************************************************************************)
(* Hover on the two documents and a link with a context.                   *)
(***************************************************************************)
InitHover ==
  /\ vault = HoverVault
  /\ InitView

NextHover ==
  \/ OnOpenNeighbourhood \/ OnOpenConnect \/ OnOpenStyle \/ OnOpenReject
  \/ \E n \in NodeIds : MouseOverNode(n)
  \/ \E e \in EdgeIds : MouseOverEdge(e)
  \/ \E x \in ElemIds :
       \/ MouseOut(x) \/ ReadResolve(x) \/ TimerFire(x)
       \/ PreviewRender(x) \/ PreviewClose(x)

SpecHover == InitHover /\ [][NextHover]_vars

(***************************************************************************)
(* The view opened on Home, with expand by double click.                   *)
(***************************************************************************)
InitHome ==
  /\ vault = HomeVault
  /\ InitView

NextHome ==
  \/ OnOpenNeighbourhood \/ OnOpenConnect \/ OnOpenStyle \/ OnOpenReject
  \/ \E n \in NodeIds : DblClick(n)
  \/ \E s \in Slots :
       ExpandNeighbourhood(s) \/ ExpandConnect(s) \/ CallReject(s)

SpecHome == InitHome /\ [][NextHome]_vars

(***************************************************************************)
(* Selection on Home and its two linked documents.                         *)
(***************************************************************************)
NextSelect ==
  \/ OnOpenNeighbourhood \/ OnOpenConnect \/ OnOpenStyle \/ OnOpenReject
  \/ SelectAll \/ InvertSelection \/ SelectNeighbourhood
  \/ TapBackground \/ RemoveSelection
  \/ \E n \in NodeIds : CxtTap(n)

SpecSelect == InitHome /\ [][NextSelect]_vars

(***************************************************************************)
(* The layout: every operation that stops or starts it, on two documents   *)
(* without link.                                                           *)
(***************************************************************************)
NextLayout ==
  \/ OnOpenNeighbourhood \/ OnOpenConnect \/ OnOpenStyle \/ OnOpenReject
  \/ PinSelection \/ UnpinSelection \/ RemoveSelection \/ LayoutStop
  \/ \E n \in NodeIds :
       CxtTap(n) \/ DblClick(n) \/ FileOpen(n) \/ Grab(n) \/ DragFree(n)
  \/ \E s \in Slots :
       \/ ExpandNeighbourhood(s) \/ ExpandConnect(s)
       \/ FileOpenGet(s) \/ FileOpenConnect(s) \/ CallReject(s)

SpecLayout == InitNodes /\ [][NextLayout]_vars

(***************************************************************************)
(* Overlapping calls: two expand or file-open calls in flight at a time.   *)
(***************************************************************************)
\* Home and B, which has two shapes and is linked from nowhere
OverlapVault == {<<"A", "v1">>, <<"B", "v1">>, <<"B", "v2">>}

InitOverlap ==
  /\ vault = OverlapVault
  /\ ident = NoIdent
  /\ InitStoreOf(MaxOverlap)

NextOverlap ==
  \/ OnOpenNeighbourhood \/ OnOpenConnect \/ OnOpenStyle \/ OnOpenReject
  \/ \E n \in NodeIds : DblClick(n) \/ FileOpen(n)
  \/ \E s \in Slots :
       \/ ExpandNeighbourhood(s) \/ ExpandConnect(s)
       \/ FileOpenGet(s) \/ FileOpenConnect(s) \/ CallReject(s)

SpecOverlap == InitOverlap /\ [][NextOverlap]_vars

(***************************************************************************)
(* The position lock: pin, unpin, merge, hover and drag on Home and a      *)
(* document of the second store linked from it.  The user grabs the node   *)
(* under the pointer; the document reads of hover stay in flight.          *)
(***************************************************************************)
LockVault == {<<"A", "v1">>, <<"C", "v1">>, <<"AC", "v1">>}

InitLock ==
  /\ vault = LockVault
  /\ InitView

NextLock ==
  \/ OnOpenNeighbourhood \/ OnOpenConnect \/ OnOpenStyle \/ OnOpenReject
  \/ PinSelection \/ UnpinSelection \/ LayoutStop
  \/ \E n \in NodeIds :
       \/ CxtTap(n) \/ DblClick(n) \/ DragFree(n)
       \/ MouseOverNode(n) \/ MouseOut(n)
       \/ (pointer = n /\ Grab(n))
  \/ \E s \in Slots : ExpandNeighbourhood(s) \/ ExpandConnect(s)

SpecLock == InitLock /\ [][NextLock]_vars

(***************************************************************************)
(* Drag with pin, unpin, expand and hide.  A layout run ends after         *)
(* maxSimulationTime at the latest.                                        *)
(***************************************************************************)
NextDrag ==
  \/ OnOpenNeighbourhood \/ OnOpenConnect \/ OnOpenStyle \/ OnOpenReject
  \/ PinSelection \/ UnpinSelection \/ RemoveSelection \/ LayoutStop
  \/ \E n \in NodeIds : CxtTap(n) \/ DblClick(n) \/ Grab(n) \/ DragFree(n)
  \/ \E s \in Slots : ExpandNeighbourhood(s) \/ ExpandConnect(s)

SpecDrag == InitLock /\ [][NextDrag]_vars /\ WF_vars(LayoutStop)

(***************************************************************************)
(* Expand on Home and its linked documents, with the steps of each call    *)
(* recorded.                                                               *)
(***************************************************************************)
InitExpand ==
  /\ vault = HomeVault
  /\ ident = NoIdent
  /\ InitFields(MaxInFlight)
  /\ steps = NewSteps(MaxInFlight)

NextExpand ==
  \/ OnOpenNeighbourhood \/ OnOpenConnect \/ OnOpenStyle \/ OnOpenReject
  \/ ExpandSelection
  \/ \E n \in NodeIds : CxtTap(n) \/ DblClick(n)
  \/ \E s \in Slots :
       ExpandNeighbourhood(s) \/ ExpandConnect(s) \/ CallReject(s)

SpecExpand == InitExpand /\ [][NextExpand]_vars

(***************************************************************************)
(* Hide on Home and its linked documents, with pin and a bounded number of *)
(* expand calls before it.                                                 *)
(***************************************************************************)
NextHide ==
  \/ OnOpenNeighbourhood \/ OnOpenConnect \/ OnOpenStyle \/ OnOpenReject
  \/ PinSelection \/ RemoveSelection
  \/ \E n \in NodeIds : CxtTap(n) \/ DblClick(n)
  \/ \E s \in Slots : ExpandNeighbourhood(s) \/ ExpandConnect(s)

SpecHide == InitExpand /\ [][NextHide]_vars

(***************************************************************************)
(* Selection on Home and a linked document that links to itself.           *)
(***************************************************************************)
LoopVault == {<<"A", "v1">>, <<"C", "v1">>, <<"AC", "v1">>, <<"CC", "v1">>}

InitLoop ==
  /\ vault = LoopVault
  /\ InitView

SpecLoop == InitLoop /\ [][NextSelect]_vars

(***************************************************************************)
(* VizId, lines 63-108: strings are sequences of characters.               *)
(***************************************************************************)
Chars == {":", "a", "b"}
Strings == UNION {[1..n -> Chars] : n \in 0..MaxLen}

\* `${this.storeId}:${this.id}`, lines 71-77 and 105-107
toId(id, storeId) == storeId \o <<":">> \o id

\* String.prototype.split(':')
RECURSIVE split(_)
split(str) ==
  IF str = << >> THEN << << >> >>
  ELSE LET r == split(Tail(str))
       IN  IF Head(str) = ":" THEN << << >> >> \o r
           ELSE << <<Head(str)>> \o Head(r) >> \o Tail(r)

\* Array.prototype.join(':')
RECURSIVE join(_)
join(parts) ==
  IF parts = << >> THEN << >>
  ELSE IF Len(parts) = 1 THEN parts[1]
  ELSE parts[1] \o <<":">> \o join(Tail(parts))

\* a variant of fromId that takes the part after the last separator as id
fromIdLast(str) ==
  LET parts == split(str)
  IN  [id |-> parts[Len(parts)],
       storeId |-> join(SubSeq(parts, 1, Len(parts) - 1))]

\* VizId.fromId, lines 79-84
fromId(str) ==
  LET parts == split(str)
  IN  [id |-> join(Tail(parts)), storeId |-> parts[1]]

InitVizId ==
  /\ vault = {}
  /\ InitStore
  /\ \E id \in Strings, storeId \in Strings :
        ident = [phase |-> "made", id |-> id, storeId |-> storeId]

\* VizId.toId(id, storeId)
ToId ==
  /\ ident.phase = "made"
  /\ ident' = [phase |-> "encoded", id |-> ident.id, storeId |-> ident.storeId,
                str |-> toId(ident.id, ident.storeId)]
  /\ UNCHANGED <<vault, viz, steps, open, procs, activeLayout, runs, unlockOnStop, grabbed, batch, tapClear,
                 hoverVars, last, fetched>>

\* VizId.fromId(str)
FromId ==
  /\ ident.phase = "encoded"
  /\ ident' = [phase |-> "decoded", id |-> ident.id, storeId |-> ident.storeId,
                str |-> ident.str, out |-> fromId(ident.str)]
  /\ UNCHANGED <<vault, viz, steps, open, procs, activeLayout, runs, unlockOnStop, grabbed, batch, tapClear,
                 hoverVars, last, fetched>>

NextVizId == ToId \/ FromId

SpecVizId == InitVizId /\ [][NextVizId]_vars

(***************************************************************************)
(* Properties.                                                             *)
(***************************************************************************)
Protected == {CLASS_PINNED, CLASS_EXPANDED}
\* the highlight classes of hover and of the active file
Ephemeral == HoverClasses \cup ActiveClasses

\* the element lists mergeToGraph may be handed: one response per store
RECURSIVE ResponseLists(_)
ResponseLists(n) ==
  IF n = 0 THEN {<< >>}
  ELSE {Append(q, r) : q \in ResponseLists(n - 1), r \in Responses(n, VaultIds)}

MergeInputs == ResponseLists(NumStores)

\* C1: the merge of fetched records (which carry neither tag) leaves the
\* pinned and the expanded tag of every node it updates as they were.
C1_MergeKeepsProtected ==
  [][last'.op = "mergeNodes" =>
       \A n \in last'.S :
          viz'.classes[n] \cap Protected = viz.classes[n] \cap Protected]_vars

\* a merge has updated a node that is pinned and expanded
C1_Witness ==
  /\ last.op = "mergeNodes"
  /\ \E n \in last.S : Protected \subseteq viz.classes[n]

\* C2: when expand(S) has completed, every node of S is tagged expanded and
\* every edge the stores returned is in the store.  Stated for the nodes of
\* S the store holds and the edges whose ends it holds.
C2_ExpandComplete ==
  last.op = "expand" =>
     /\ last.S \cap viz.nodes \subseteq getExpanded(viz)
     /\ {e \in last.E : {Src(e), Tgt(e)} \subseteq viz.nodes} \subseteq viz.edges

\* C3: when a store's call rejects during an expand, what the stores asked
\* before it returned for that call is merged into the store all the same.
C3_RejectKeepsOthers ==
  last.op = "reject" => last.S \subseteq Elements(viz)

\* C4: no state in which a handler is suspended shows nodes an expand or a
\* file-open has added while the edges fetched for them are yet to be added.
C4_AtomicAdd ==
  \A s \in Slots :
     (/\ procs[s].kind \in {"expand", "fileopen"}
      /\ procs[s].phase = "con"
      /\ last.op \in {"mergeNodes", "add"})
     => last.E \cap viz.nodes = {}

\* C5: after a Remove no surviving node that lost all of its neighbours to
\* that Remove is still tagged expanded.
C5_RemoveClearsExpanded ==
  [][last'.op = "remove" =>
       \A b \in viz'.nodes :
          (OtherNeighbours(viz, b) # {} /\ OtherNeighbours(viz', b) = {})
             => b \notin getExpanded(viz')]_vars

\* a Remove has taken every neighbour of a node that was tagged expanded
C5_Witness ==
  /\ last.op = "remove"
  /\ last.E # {}
  /\ last.E \subseteq viz.nodes

\* C6: an element the store holds has, after the merge of a record of its
\* identity, exactly the classes of the record and those of pinned and
\* expanded it had before.
C6_MergeTags ==
  \A elems \in MergeInputs :
     \A x \in Ids(elems) \cap Elements(viz) :
        mergeToGraph(viz, elems).classes[x] =
           RecClasses(LastRec(elems, x)) \cup (viz.classes[x] \cap Protected)

\* a merge has updated a node to exactly {pinned, expanded, visited}
C6_Witness ==
  /\ last.op = "mergeNodes"
  /\ \E x \in last.S : viz.classes[x] = Protected \cup {"visited"}

\* C7: merging an element list a second time changes neither the nodes, the
\* edges, the classes (highlight classes aside) nor the data.
C7_MergeIdempotent ==
  \A elems \in MergeInputs :
     LET g1 == mergeToGraph(viz, elems)
         g2 == mergeToGraph(g1, elems)
     IN  /\ g2.nodes = g1.nodes
         /\ g2.edges = g1.edges
         /\ \A x \in ElemIds : g2.classes[x] \ Ephemeral = g1.classes[x] \ Ephemeral
         /\ g2.data = g1.data
         /\ g2.degree = g1.degree

\* a merge has updated and added elements, and merging the like again
\* leaves the store as it is
C7_Witness ==
  /\ last.op = "mergeNodes"
  /\ last.S # {} /\ last.E # {}
  /\ \E elems \in MergeInputs :
        /\ Ids(elems) = last.S \cup last.E
        /\ mergeToGraph(viz, elems) = viz

\* C8: once the pointer has left an element, no preview timer of that
\* element is pending.
C8_LeaveCancelsPreview ==
  \A x \in ElemIds :
     pointer # x => hoverTimeout[x] # "pending" /\ timers[x] = 0

\* C9: every node tagged expanded has had its neighbourhood, nodes and
\* edges, fetched and merged.
C9_ExpandedWasFetched ==
  getExpanded(viz) \subseteq fetched

\* C10: a node leaves the store only by a Remove of a set that contains it,
\* and a merge, an expand or a file-open keeps the nodes it finds in the
\* store as they are selected and locked.
C10_OnlyRemoveDeletes ==
  [][/\ \/ viz.nodes \subseteq viz'.nodes
        \/ last'.op = "remove" /\ viz.nodes \ viz'.nodes \subseteq last'.S
     /\ last'.op \in {"mergeNodes", "expand", "add", "fileopen"} =>
          /\ viz'.selected \cap viz.nodes = viz.selected \cap viz.nodes
          /\ viz'.locked \cap viz.nodes = viz.locked \cap viz.nodes]_vars

\* an expand has completed on a store with a selected and a locked node
C10_Witness ==
  /\ last.op = "expand"
  /\ last.S # {}
  /\ viz.selected \cap viz.nodes # {}
  /\ viz.locked # {}
  /\ viz.nodes = {"A", "B"}
\* C11: the expansion of Home from the empty graph (the opening of the view
\* on Home) that fetched Home, two nodes and the two edges ends with exactly
\* these in the store, Home tagged expanded and active-file.
C11_ExpandHome ==
  (/\ last.op = "open"
   /\ last.S = {"A", "B", "C"}
   /\ last.E = {"AB", "AC"})
  => /\ viz.nodes = last.S
     /\ viz.edges = last.E
     /\ {CLASS_EXPANDED, "active-file"} \subseteq viz.classes[initialNode]

\* C12: inverting the selection twice restores the selection, and the
\* store, as it was.
C12_InvertTwice ==
  invertSelection(invertSelection(viz)) = viz

\* the selection is the inverse of {A, C} on Home and its two links
C12_Witness ==
  /\ viz.nodes = {"A", "B", "C"}
  /\ viz.edges = {"AB", "AC"}
  /\ viz.selected = {"B", "AB", "AC"}

\* C13: selectAll followed by invertSelection leaves no element selected.
C13_SelectAllInvert ==
  invertSelection(selectAll(viz)).selected = {}

HasSeparator(str) == \E i \in 1..Len(str) : str[i] = ":"

\* C14: for a store id without separator, fromId(toId(id, storeId)) has the
\* same id and store id, also when the id holds separators.
C14_RoundTrip ==
  (ident.phase = "decoded" /\ ~HasSeparator(ident.storeId))
  => ident.out = [id |-> ident.id, storeId |-> ident.storeId]

\* an id made of two separators has gone through toId and fromId
C14_Witness ==
  /\ ident.phase = "decoded"
  /\ ident.id = <<":", ":">>
  /\ ident.storeId = <<"a">>

\* C14 as stated: for every pair (id, storeId), fromId(toId(id, storeId))
\* has the same id and store id.
C14_RoundTripAny ==
  ident.phase = "decoded"
  => ident.out = [id |-> ident.id, storeId |-> ident.storeId]

C16_DegreeCurrent ==
  last.op \in {"open", "expand", "fileopen", "remove"}
    => \A n \in viz.nodes : viz.degree[n] = DegreeOf(viz, n)

PendingTasks(x) == timers[x] + IF hoverTimeout[x] = "pending" THEN 1 ELSE 0

\* C18: at most one delayed preview task is pending for an element at any
\* time, in every interleaving of pointer-enter, pointer-leave and the
\* document read.
C18_OnePendingTask == \A x \in ElemIds : PendingTasks(x) <= 1

\* C19: after any sequence of pin, unpin, merge, hover and drag events, when
\* the pointer is over no node and no listener of a drag waits for the layout
\* to stop, a node is locked exactly when it is pinned.
C19_LockedIffPinned ==
  (pointer \notin NodeIds /\ unlockOnStop = {})
    => \A n \in viz.nodes : n \in viz.locked <=> CLASS_PINNED \in viz.classes[n]

\* the pointer has been over Home, which is pinned and locked, and has left
\* it; the layout has stopped; the other node is neither pinned nor locked
C19_Witness ==
  /\ pointer \notin NodeIds /\ unlockOnStop = {}
  /\ activeLayout = "stopped"
  /\ reads["A"] > 0
  /\ "A" \in viz.locked /\ CLASS_PINNED \in viz.classes["A"]
  /\ "C" \in viz.nodes \ viz.locked

\* the listener that dragfree registered for node n runs in this step
ListenerRuns(n) == n \in unlockOnStop /\ unlockOnStop' = {}

\* C20: releasing a dragged node starts the layout and locks the node; in
\* the step where that run stops the node is left locked exactly when it is
\* pinned then, whatever pin, unpin, expand or hide came in between; and the
\* run does stop, so a node that is not pinned is unlocked in the end.
C20_DragRelease ==
  /\ [][\A n \in NodeIds :
         /\ (grabbed = n /\ grabbed' = "none" /\ n \in viz.nodes)
              => /\ activeLayout' = "running"
                 /\ n \in viz'.locked
                 /\ n \in unlockOnStop'
         /\ (ListenerRuns(n) /\ n \in viz'.nodes)
              => (n \in viz'.locked <=> CLASS_PINNED \in viz'.classes[n])]_vars
  /\ \A n \in NodeIds :
       (n \in unlockOnStop)
         ~> (unlockOnStop = {} /\ (n \in viz.locked => CLASS_PINNED \in viz.classes[n]))

\* the run started by the release of a node has stopped by itself and the
\* node, pinned in between, is still locked
C20_Witness ==
  /\ last.op = "layoutstop"
  /\ \E n \in last.S : n \in viz.locked /\ CLASS_PINNED \in viz.classes[n]

\* the order of the steps of one expand call
ExpandOrder ==
  <<"mergeToGraph(neighbourhood)", "mergeToGraph(edges)", "restartLayout",
    "addClass(expanded)", "updateActiveFile(toExpand, false)",
    "trigger(expand)", "return">>

IsPrefix(a, b) == Len(a) <= Len(b) /\ \A i \in 1..Len(a) : a[i] = b[i]

ExpandsInFlight == Cardinality({s \in Slots : procs[s].kind = "expand"})

\* C21: the steps of an expand call come in the order node merge, edge
\* merge, layout restart, expanded tag, active-file marking without
\* animation, notification; a call that rejects stops there and never
\* notifies; there is one notification for each call that has returned.
C21_ExpandOrder ==
  /\ \A s \in Slots :
       LET t == steps.trace[s] IN
       \/ IsPrefix(t, ExpandOrder)
       \/ /\ t # << >> /\ t[Len(t)] = "reject"
          /\ IsPrefix(SubSeq(t, 1, Len(t) - 1), ExpandOrder)
          /\ Count(t, "trigger(expand)") = 0
  /\ steps.notified = steps.returned
  /\ steps.started = steps.returned + steps.rejected + ExpandsInFlight

\* one expand has returned, another rejected after its nodes were merged
C21_Witness ==
  /\ steps.returned = 1 /\ steps.rejected = 1
  /\ \E s \in Slots : steps.trace[s] = <<"mergeToGraph(neighbourhood)", "reject">>

\* C22: right after updateActiveFile(N), for any nodes N of the store,
\* active-file is on exactly the nodes of N, connected-active-file on exactly
\* the edges incident to N and their end nodes, inactive-file on exactly the
\* elements outside the closed neighbourhood of N; inactive-file never comes
\* with one of the other two, and the classes of earlier calls are gone.
C22_ActiveFileExact ==
  \A N \in SUBSET viz.nodes :
    LET h == updateActiveFile(viz, N)
        ce == {e \in viz.edges : Src(e) \in N \/ Tgt(e) \in N}
        near == N \cup ce \cup {Src(e) : e \in ce} \cup {Tgt(e) : e \in ce}
    IN  \A x \in Elements(viz) :
          /\ "active-file" \in h.classes[x] <=> x \in N
          /\ "connected-active-file" \in h.classes[x]
               <=> x \in ce \cup {Src(e) : e \in ce} \cup {Tgt(e) : e \in ce}
          /\ "inactive-file" \in h.classes[x] <=> x \notin near
          /\ "inactive-file" \in h.classes[x]
               => h.classes[x] \cap {"active-file", "connected-active-file"} = {}

\* the store carries the classes of an earlier call made for B alone: B is
\* the active file, C and the edge to it are inactive
C22_Witness ==
  /\ viz.nodes = {"A", "B", "C"} /\ viz.edges = {"AB", "AC"}
  /\ "active-file" \in viz.classes["B"]
  /\ "inactive-file" \in viz.classes["C"] \cap viz.classes["AC"]
  /\ "connected-active-file" \in viz.classes["A"]

\* the nodes joined to a node of S by an edge
Adjacent(g, S) ==
  {n \in g.nodes : \E e \in g.edges :
      \/ Src(e) = n /\ Tgt(e) \in S
      \/ Tgt(e) = n /\ Src(e) \in S}

\* C23: removeNodes(S) deletes the nodes of S and the edges incident to them
\* and nothing else; a surviving element keeps its classes, but for expanded
\* on the nodes adjacent to a node of S; what was selected and survives is
\* selected still.
C23_RemoveFrame ==
  \A S \in SUBSET viz.nodes :
    LET h == removeNodes(viz, S)
        gone == S \cup {e \in viz.edges : Src(e) \in S \/ Tgt(e) \in S}
    IN  /\ h.nodes = viz.nodes \ S
        /\ h.edges = viz.edges \ gone
        /\ h.selected = viz.selected \ gone
        /\ \A x \in Elements(viz) \ gone :
             \/ h.classes[x] = viz.classes[x]
             \/ /\ x \in Adjacent(viz, S)
                /\ h.classes[x] = viz.classes[x] \ {CLASS_EXPANDED}

\* Home is expanded, pinned and selected, B is expanded, C is not: hiding C
\* takes expanded from Home alone
C23_Witness ==
  /\ viz.nodes = {"A", "B", "C"} /\ viz.edges = {"AB", "AC"}
  /\ {CLASS_EXPANDED, CLASS_PINNED} \subseteq viz.classes["A"]
  /\ CLASS_EXPANDED \in viz.classes["B"] \ viz.classes["C"]
  /\ viz.selected = {"A"}

\* C24: after selectNeighbourhood the selected nodes are the nodes joined by
\* an edge to a node selected before, so a node selected before stays
\* selected exactly when an edge joins it to such a node, be it a loop on
\* itself; nodes, edges and classes are as before.
C24_SelectNeighbours ==
  LET h == selectNeighbourhood(viz)
  IN  /\ h.selected \cap NodeIds = Adjacent(viz, viz.selected \cap viz.nodes)
      /\ h.nodes = viz.nodes
      /\ h.edges = viz.edges
      /\ h.classes = viz.classes

\* of Home and the document with the loop, the latter alone is selected, and
\* selectNeighbourhood keeps it selected
C24_Witness ==
  /\ viz.nodes = {"A", "C"} /\ viz.edges = {"AC", "CC"}
  /\ viz.selected \cap NodeIds = {"C"}
  /\ "C" \in selectNeighbourhood(viz).selected

\* C25: no batch is open when control is back at the event loop, that is in
\* any state between two handler steps: every startBatch has met its
\* endBatch, also after a call to a data store has rejected.
C25_BatchBalanced == batch = 0
====
